---- MODULE Spec2Model ----
(***************************************************************************)
(* A model of wiki_content_scraper_enhanced.py: the WikiContentScraper     *)
(* process (construction, scrape_links, process_batch, the concurrent      *)
(* get_page_content coroutines, save_checkpoint / load_checkpoint and the  *)
(* SIGINT/SIGTERM handler handle_shutdown), the checkpoint file it leaves  *)
(* on disk, and successive runs of the process over the same files.        *)
(*                                                                         *)
(* The process is single threaded: one asyncio event loop runs the main    *)
(* coroutine and the tasks created by asyncio.gather.  A signal handler    *)
(* runs between two bytecodes of whatever the thread is executing, and an  *)
(* exception it raises surfaces at that point.                             *)
(***************************************************************************)
EXTENDS Integers, Sequences, FiniteSets, TLC

\* ------------------------------------------------------------------ bounds
MaxLen == 3          \* longest input list (rows of the input CSV)
MaxSignals == 1      \* termination requests delivered to one process
MaxRuns == 2         \* processes started one after the other

\* ------------------------------------------------------------- environment
URLs == {"A", "B", "C"}

\* 'start_time': None, 'last_checkpoint': None; clock readings are >= 1
None == 0

\* What the server answers to the n-th request for a URL.  A answers 200
\* with a long page; B fails transiently three times and then answers 200
\* with a long page; C answers with something no retry can mend.
Script(u) ==
    CASE u = "A" -> << {"ok"} >>
      [] u = "B" -> << {"5xx", "timeout"}, {"5xx", "timeout"}, {"5xx", "timeout"}, {"ok"} >>
      [] u = "C" -> << {"short", "nocontent", "4xx"} >>

Transient == {"5xx", "timeout"}
Terminal == {"short", "nocontent", "4xx"}

\* the answers the server may give to request number n for u
Answers(u, n) == Script(u)[IF n < Len(Script(u)) THEN n ELSE Len(Script(u))]

\* len(cleaned_text) and len(cleaned_text.encode('utf-8')) of the page
PageChars(kind) == IF kind = "ok" THEN 60 ELSE 10
PageBytes(kind) == IF kind = "ok" THEN 64 ELSE 10

\* str(e) of the exception raised for an answer; the asyncio.TimeoutError of
\* an expired total timeout has no arguments and its str is the empty string
ErrorText(kind) ==
    CASE kind = "5xx" -> "HTTP 500"
      [] kind = "4xx" -> "HTTP 404"
      [] kind = "timeout" -> ""
      [] kind = "nocontent" -> "No main content found"
      [] kind = "short" -> "Content too short"
      [] OTHER -> "None"

\* ------------------------------------------------------------ small helpers
Range(s) == {s[k] : k \in 1..Len(s)}

SeqsUpTo(S, n) == UNION {[1..m -> S] : m \in 0..n}

Min(a, b) == IF a < b THEN a ELSE b

\* index of the first occurrence of x in s (0 when absent)
FirstIndex(s, x) ==
    IF x \in Range(s) THEN CHOOSE k \in 1..Len(s) : s[k] = x /\ \A m \in 1..(k - 1) : s[m] # x
    ELSE 0

\* ------------------------------------------------------------------- state
VARIABLES
    cfgPresent,   \* does the configuration file exist
    config,       \* self.config, as read from the configuration file
    input,        \* the 'URL' column of the input CSV
    inputOk,      \* can pd.read_csv read the input file
    file,         \* scraper_checkpoint.json on disk
    output,       \* the rows of the output CSV (<<>> until written)
    now,          \* the clock read by time.time() and datetime.now()
    run,          \* number of the process now running (1, 2, ...)
    resume,       \* the resume argument of scrape_links (not --no-resume)
    pc,           \* where the main coroutine stands
    stats,        \* self.stats
    i,            \* the loop variable of the batch loop of scrape_links
    j,            \* position of the for loop of process_batch in the batch
    tasks,        \* the coroutines of the batch, in the order of the list
    results,      \* the list results of scrape_links
    order,        \* indices of tasks in the order they returned
    sigs,         \* termination requests delivered to this process
    found,        \* what load_checkpoint met and how it ended, once called
    sinceSleep,   \* requests sent since the last asyncio.sleep returned
    lastSave,     \* what the latest call of save_checkpoint was handed
    hist,         \* how the earlier processes ran and ended
    recorded,     \* URLs for which some process counted an outcome
    prior         \* URLs listed in the checkpoint found by the first process

envVars == <<cfgPresent, config, input, inputOk, prior>>
memVars == <<resume, pc, stats, i, j, tasks, results, order, sigs, found, sinceSleep>>
vars == <<cfgPresent, config, input, inputOk, file, output, now, run, resume, pc,
          stats, i, j, tasks, results, order, sigs, found, sinceSleep, lastSave, hist,
          recorded, prior>>

\* ---------------------------------------------------------------- statistics
\* processed_urls is a Python set in a fresh process and a JSON array (a
\* Python list) once it was read back from a checkpoint; items lists the
\* members, in insertion order.
initialize_stats ==
    [total_size_bytes |-> 0,
     successful_downloads |-> 0,
     failed_downloads |-> 0,
     retried_downloads |-> 0,
     start_time |-> None,
     last_checkpoint |-> None,
     processed_urls |-> [kind |-> "set", items |-> <<>>]]

Processed(s) == Range(s.processed_urls.items)

\* ----------------------------------------------------------- the checkpoint
\* state "absent": no file; "valid": a complete JSON document; "partial":
\* the file was opened for writing and json.dump stopped before the end,
\* what is on disk is not a JSON document.
NoFile == [state |-> "absent", stats |-> initialize_stats, timestamp |-> None]

\* json.dump raises TypeError on a set (it is not JSON serializable)
Serializable(s) == s.processed_urls.kind = "list"

\* a save_checkpoint that would also restart the clock of the run
save_checkpoint_restarting(s, t) ==
    IF Serializable(s)
    THEN [ok |-> TRUE,
          file |-> [state |-> "valid", stats |-> s, timestamp |-> t],
          stats |-> [s EXCEPT !.last_checkpoint = t, !.start_time = t]]
    ELSE [ok |-> FALSE,
          file |-> [state |-> "partial", stats |-> initialize_stats, timestamp |-> None],
          stats |-> s]

\* save_checkpoint at clock reading t: the file it leaves, whether it
\* returned (ok) or raised, and self.stats afterwards
save_checkpoint(s, t) ==
    IF Serializable(s)
    THEN [ok |-> TRUE,
          file |-> [state |-> "valid", stats |-> s, timestamp |-> t],
          stats |-> [s EXCEPT !.last_checkpoint = t]]
    ELSE [ok |-> FALSE,
          file |-> [state |-> "partial", stats |-> initialize_stats, timestamp |-> None],
          stats |-> s]

\* load_checkpoint: "raise" stands for json.JSONDecodeError, which the
\* except FileNotFoundError clause does not catch
load_checkpoint(f, s) ==
    CASE f.state = "absent" -> [ret |-> "false", stats |-> s]
      [] f.state = "partial" -> [ret |-> "raise", stats |-> s]
      [] f.state = "valid" -> [ret |-> "true", stats |-> f.stats]

\* the record save_checkpoint was handed, kept for the properties
SaveRecord(who, s, r, ts, at) ==
    [who |-> who, ok |-> r.ok, run |-> run,
     successful_downloads |-> s.successful_downloads,
     failed_downloads |-> s.failed_downloads,
     total_size_bytes |-> s.total_size_bytes,
     processed |-> Processed(s),
     completed |-> {ts[k].url : k \in {m \in 1..Len(ts) : ts[m].st = "done"}},
     batch |-> {ts[k].url : k \in 1..Len(ts)},
     midUpdate |-> \E k \in 1..Len(ts) : ts[k].st = "mid",
     at |-> at]

NoSave ==
    [who |-> "none", ok |-> FALSE, run |-> 0, successful_downloads |-> 0,
     failed_downloads |-> 0, total_size_bytes |-> 0, processed |-> {},
     completed |-> {}, batch |-> {}, midUpdate |-> FALSE, at |-> "none"]

\* ------------------------------------------------------------ initial state
\* the configuration files tried: the options load_config reads, with the
\* batch sizes and checkpoint frequencies that split an input of up to
\* MaxLen rows in every way
BatchSizes == {1, 2, 3}
Frequencies == {1, 2}

ConfigFiles ==
    {[max_retries |-> 2, timeout |-> 30, batch_size |-> b, min_content_length |-> 50,
      checkpoint_frequency |-> f, rate_limit |-> 1] :
        b \in BatchSizes, f \in Frequencies}

\* load_config, FileNotFoundError clause: the options assigned to self.config
\* when there is no configuration file
DefaultConfig ==
    [max_retries |-> 3, timeout |-> 30, batch_size |-> 10, min_content_length |-> 100,
     checkpoint_frequency |-> 50, rate_limit |-> 1]

\* checkpoints a previous, complete save may have left: every listed URL was
\* counted once
StatsOnDisk ==
    {[total_size_bytes |-> 64 * Len(p),
      successful_downloads |-> Len(p),
      failed_downloads |-> 0,
      retried_downloads |-> 0,
      start_time |-> 1,
      last_checkpoint |-> None,
      processed_urls |-> [kind |-> "list", items |-> p]] :
        p \in {<<"A">>, <<"A", "B">>, <<"A", "B", "C">>}}

FilesOnDisk ==
    {NoFile, [state |-> "partial", stats |-> initialize_stats, timestamp |-> None]}
      \cup {[state |-> "valid", stats |-> s, timestamp |-> 1] : s \in StatsOnDisk}

Inputs == SeqsUpTo(URLs, MaxLen)

\* load_checkpoint was not called (yet)
NotLoaded == [state |-> "none", ret |-> "none"]

Fresh ==
    /\ pc = "construct"
    /\ stats = initialize_stats
    /\ i = 0 /\ j = 0
    /\ tasks = <<>> /\ results = <<>> /\ order = <<>>
    /\ sigs = 0
    /\ found = NotLoaded
    /\ sinceSleep = 0

Init ==
    /\ cfgPresent \in BOOLEAN
    /\ config \in ConfigFiles \cup {DefaultConfig}
    /\ cfgPresent = (config \in ConfigFiles)
    /\ input \in Inputs
    /\ inputOk \in BOOLEAN
    /\ inputOk = FALSE => input = <<>>
    /\ file \in FilesOnDisk
    /\ prior = Processed(file.stats)
    /\ output = <<>>
    /\ now = 2
    /\ run = 1
    /\ resume \in BOOLEAN
    /\ Fresh
    /\ lastSave = NoSave
    /\ hist = <<>>
    /\ recorded = {}

\* ------------------------------------------------------- the main coroutine
\* __init__: load_config logs through self.logger in its FileNotFoundError
\* clause, before setup_logging created the logger: with no configuration
\* file the constructor ends in AttributeError
Construct ==
    /\ pc = "construct"
    /\ pc' = IF cfgPresent THEN "start" ELSE "crashed"
    /\ UNCHANGED <<envVars, found, sinceSleep, file, output, now, run, resume, stats, i, j, tasks, results,
                   order, sigs, lastSave, hist, recorded>>

\* scrape_links, "if resume and self.load_checkpoint(): ... else: start_time"
LoadOrInit ==
    /\ pc = "start"
    /\ LET r == load_checkpoint(file, stats) IN
      /\ IF resume /\ r.ret = "raise"
         THEN /\ pc' = "except"
              /\ stats' = stats
         ELSE /\ pc' = "read"
              /\ stats' = IF resume /\ r.ret = "true" THEN r.stats
                          ELSE [stats EXCEPT !.start_time = now]
      /\ found' = IF resume THEN [state |-> file.state, ret |-> r.ret] ELSE found
    /\ UNCHANGED <<envVars, sinceSleep, file, output, now, run, resume, i, j, tasks, results, order,
                   sigs, lastSave, hist, recorded>>

\* df = pd.read_csv(input_file); results = []
ReadInput ==
    /\ pc = "read"
    /\ pc' = IF inputOk THEN "loop" ELSE "except"
    /\ i' = 0
    /\ results' = <<>>
    /\ UNCHANGED <<envVars, found, sinceSleep, file, output, now, run, resume, stats, j, tasks, order, sigs,
                   lastSave, hist, recorded>>

\* df['URL'].iloc[i:i + batch_size].tolist()
BatchUrls(k) == SubSeq(input, k + 1, Min(k + config.batch_size, Len(input)))

\* the head of "for i in range(0, len(df), batch_size)"; after the last
\* batch the results are written to the output file
LoopHead ==
    /\ pc = "loop"
    /\ IF i < Len(input)
       THEN /\ pc' = "for"
            /\ j' = 1
            /\ tasks' = <<>>
            /\ order' = <<>>
            /\ output' = output
       ELSE /\ pc' = "done"
            /\ output' = results
            /\ UNCHANGED <<j, tasks, order>>
    /\ UNCHANGED <<envVars, found, sinceSleep, file, now, run, resume, stats, i, results, sigs, lastSave,
                   hist, recorded>>

\* the dict result of get_page_content and the coroutine that will fill it
NewTask(u) ==
    [url |-> u, st |-> "created", kind |-> "none", content |-> 0, size_bytes |-> 0,
     error |-> "None", succ |-> 0, fail |-> 0, sent |-> 0, afterSig |-> FALSE]

\* the membership test left out
ToFetch_unconditional(u, s) == TRUE

\* "if url not in self.stats['processed_urls']"
ToFetch(u, s) == u \notin Processed(s)

\* self.stats['processed_urls'].add(url): a list has no attribute add
CanAdd(s) == s.processed_urls.kind = "set"

\* a process_batch that would not mark the URL before the batch is gathered
AddUrl_forgotten(u, s) == s

AddUrl(u, s) == [s EXCEPT !.processed_urls.items = Append(@, u)]

\* one turn of the for loop of process_batch, up to its await; past the
\* last URL, asyncio.gather(*tasks) wraps the coroutines into tasks
ForStep ==
    /\ pc = "for"
    /\ LET urls == BatchUrls(i) IN
         IF j > Len(urls)
         THEN /\ pc' = IF tasks = <<>> THEN "ckpt" ELSE "gather"
              /\ tasks' = [k \in 1..Len(tasks) |-> [tasks[k] EXCEPT !.st = "scheduled"]]
              /\ UNCHANGED <<stats, j>>
         ELSE IF ToFetch(urls[j], stats)
         THEN /\ tasks' = Append(tasks, NewTask(urls[j]))
              /\ IF CanAdd(stats)
                 THEN /\ stats' = AddUrl(urls[j], stats)
                      /\ pc' = "sleep"
                 ELSE /\ stats' = stats
                      /\ pc' = "except"
              /\ j' = j
         ELSE /\ j' = j + 1
              /\ UNCHANGED <<stats, tasks, pc>>
    /\ UNCHANGED <<envVars, found, sinceSleep, file, output, now, run, resume, i, results, order, sigs,
                   lastSave, hist, recorded>>

\* await asyncio.sleep(self.config['rate_limit']) returns
Wake ==
    /\ pc = "sleep"
    /\ pc' = "for"
    /\ j' = j + 1
    /\ sinceSleep' = 0
    /\ UNCHANGED <<envVars, found, file, output, now, run, resume, stats, i, tasks, results,
                   order, sigs, lastSave, hist, recorded>>

\* ------------------------------------------------- get_page_content, by task
\* the task whose code the thread is executing between two of its awaits:
\* "starting" before the request is sent, "extracting" after the answer
\* arrived, "mid" between the two statistics updates of a success
Running(ts) == {k \in 1..Len(ts) : ts[k].st \in {"starting", "extracting", "mid"}}

\* process_batch returning without waiting for the fetches it started
Unfinished_not_awaited(ts) == {}

Unfinished(ts) == {k \in 1..Len(ts) : ts[k].st # "done"}

\* response.status
Status(kind) ==
    CASE kind = "5xx" -> 500
      [] kind = "4xx" -> 404
      [] OTHER -> 200

\* the length validation left out
LongEnough_unchecked(kind, cfg) == TRUE

\* "if not content" and "if len(cleaned_text) < min_content_length"
HasContent(kind) == kind # "nocontent"
LongEnough(kind, cfg) == PageChars(kind) >= cfg.min_content_length

\* the except clause of get_page_content: count a failure, keep the message
Failed(t, msg) == [t EXCEPT !.st = "done", !.error = msg, !.fail = @ + 1]

CountFailure(s) == [s EXCEPT !.failed_downloads = @ + 1]

\* the event loop gives each task of the gather its first step, in list
\* order; the step enters the try block
TaskStart(k) ==
    /\ pc = "gather"
    /\ k \in 1..Len(tasks)
    /\ Running(tasks) = {}
    /\ tasks[k].st = "scheduled"
    /\ \A m \in 1..(k - 1) : tasks[m].st # "scheduled"
    /\ tasks' = [tasks EXCEPT ![k].st = "starting"]
    /\ UNCHANGED <<envVars, found, sinceSleep, file, output, now, run, resume, pc, stats, i, j, results,
                   order, sigs, lastSave, hist, recorded>>

\* session.get(url, timeout=...): the request leaves, the task awaits
TaskSend(k) ==
    /\ pc = "gather"
    /\ k \in 1..Len(tasks)
    /\ tasks[k].st = "starting"
    /\ tasks' = [tasks EXCEPT ![k].st = "inflight", ![k].sent = @ + 1,
                              ![k].afterSig = (sigs > 0)]
    /\ sinceSleep' = sinceSleep + 1
    /\ UNCHANGED <<envVars, found, file, output, now, run, resume, pc, stats, i, j, results,
                   order, sigs, lastSave, hist, recorded>>

\* the answer (or the timeout) arrives; a status other than 200 and a
\* timeout raise into the except clause at once
TaskResponse(k, kind) ==
    /\ pc = "gather"
    /\ k \in 1..Len(tasks)
    /\ Running(tasks) = {}
    /\ tasks[k].st = "inflight"
    /\ kind \in Answers(tasks[k].url, tasks[k].sent)
    /\ IF kind = "timeout" \/ Status(kind) # 200
       THEN /\ tasks' = [tasks EXCEPT ![k] = Failed([@ EXCEPT !.kind = kind], ErrorText(kind))]
            /\ stats' = CountFailure(stats)
            /\ order' = Append(order, k)
            /\ recorded' = recorded \cup {tasks[k].url}
       ELSE /\ tasks' = [tasks EXCEPT ![k].st = "extracting", ![k].kind = kind]
            /\ UNCHANGED <<stats, order, recorded>>
    /\ UNCHANGED <<envVars, found, sinceSleep, file, output, now, run, resume, pc, i, j, results, sigs,
                   lastSave, hist>>

\* parse, extract, clean and validate; on a valid page fill the result and
\* count the success (line 177)
TaskExtract(k) ==
    /\ pc = "gather"
    /\ k \in 1..Len(tasks)
    /\ tasks[k].st = "extracting"
    /\ LET kind == tasks[k].kind IN
         IF HasContent(kind) /\ LongEnough(kind, config)
         THEN /\ tasks' = [tasks EXCEPT ![k].st = "mid", ![k].content = PageChars(kind),
                                        ![k].size_bytes = PageBytes(kind), ![k].succ = @ + 1]
              /\ stats' = [stats EXCEPT !.successful_downloads = @ + 1]
              /\ order' = order
         ELSE /\ tasks' = [tasks EXCEPT ![k] = Failed(@, ErrorText(IF HasContent(kind)
                                                                     THEN "short" ELSE "nocontent"))]
              /\ stats' = CountFailure(stats)
              /\ order' = Append(order, k)
    /\ recorded' = recorded \cup {tasks[k].url}
    /\ UNCHANGED <<envVars, found, sinceSleep, file, output, now, run, resume, pc, i, j, results, sigs,
                   lastSave, hist>>

\* self.stats['total_size_bytes'] += result['size_bytes'] (line 178); return
TaskAddBytes(k) ==
    /\ pc = "gather"
    /\ k \in 1..Len(tasks)
    /\ tasks[k].st = "mid"
    /\ tasks' = [tasks EXCEPT ![k].st = "done"]
    /\ stats' = [stats EXCEPT !.total_size_bytes = @ + tasks[k].size_bytes]
    /\ order' = Append(order, k)
    /\ UNCHANGED <<envVars, found, sinceSleep, file, output, now, run, resume, pc, i, j, results, sigs,
                   lastSave, hist, recorded>>

\* the dict a finished coroutine returns
ResultOf(t) == [url |-> t.url, content |-> t.content, error |-> t.error,
                size_bytes |-> t.size_bytes]

\* the results taken in completion order (as asyncio.as_completed would)
GatherResults_as_completed(ts, ord) == [k \in 1..Len(ts) |-> ResultOf(ts[ord[k]])]

\* asyncio.gather returns the results in the order of its arguments
GatherResults(ts, ord) == [k \in 1..Len(ts) |-> ResultOf(ts[k])]

\* every task returned: process_batch returns, results.extend(batch_results)
GatherDone ==
    /\ pc = "gather"
    /\ Unfinished(tasks) = {}
    /\ results' = results \o GatherResults(tasks, order)
    /\ pc' = "ckpt"
    /\ UNCHANGED <<envVars, found, sinceSleep, file, output, now, run, resume, stats, i, j, tasks, order,
                   sigs, lastSave, hist, recorded>>

\* "if i % checkpoint_frequency == 0: self.save_checkpoint()", then the
\* next turn of the batch loop; a save that raises goes to the except clause
PeriodicCheckpoint ==
    /\ pc = "ckpt"
    /\ IF i % config.checkpoint_frequency = 0
       THEN LET r == save_checkpoint(stats, now) IN
              /\ file' = r.file
              /\ stats' = r.stats
              /\ now' = now + 1
              /\ lastSave' = SaveRecord("periodic", stats, r, tasks, pc)
              /\ pc' = IF r.ok THEN "loop" ELSE "except"
              /\ i' = IF r.ok THEN i + config.batch_size ELSE i
       ELSE /\ pc' = "loop"
            /\ i' = i + config.batch_size
            /\ UNCHANGED <<file, stats, now, lastSave>>
    /\ UNCHANGED <<envVars, found, sinceSleep, output, run, resume, j, tasks, results, order, sigs, hist,
                   recorded>>

\* "except Exception as e: ... self.save_checkpoint(); raise": the process
\* ends with a traceback whether the save returns or raises
ExceptHandler ==
    /\ pc = "except"
    /\ LET r == save_checkpoint(stats, now) IN
         /\ file' = r.file
         /\ stats' = r.stats
         /\ lastSave' = SaveRecord("error", stats, r, tasks, pc)
    /\ now' = now + 1
    /\ pc' = "crashed"
    /\ UNCHANGED <<envVars, found, sinceSleep, output, run, resume, i, j, tasks, results, order, sigs, hist,
                   recorded>>

\* the process is killed (SIGKILL, power loss) inside save_checkpoint, after
\* open(checkpoint_file, 'w') has emptied the file and before json.dump has
\* written the whole document: the checkpoint file itself is what is open
KilledInSave ==
    /\ \/ pc = "ckpt" /\ i % config.checkpoint_frequency = 0
       \/ pc = "except"
    /\ file' = [state |-> "partial", stats |-> initialize_stats, timestamp |-> None]
    /\ lastSave' = SaveRecord(IF pc = "ckpt" THEN "periodic" ELSE "error", stats,
                              [ok |-> FALSE], tasks, pc)
    /\ now' = now + 1
    /\ pc' = "killed"
    /\ UNCHANGED <<envVars, found, sinceSleep, output, run, resume, stats, i, j, tasks, results,
                   order, sigs, hist, recorded>>

\* ------------------------------------------------------ termination request
\* what cancellation by asyncio.run does to the tasks of the gather: a task
\* that has not returned gets CancelledError, which "except Exception" does
\* not catch, and counts nothing
Cancelled(ts) ==
    [k \in 1..Len(ts) |->
        IF ts[k].st \in {"done", "created"} THEN ts[k] ELSE [ts[k] EXCEPT !.st = "cancelled"]]

\* handle_shutdown, run by SIGINT or SIGTERM wherever the thread stands:
\* save_checkpoint(), then sys.exit(0).  When the save raises, sys.exit is
\* not reached and the TypeError surfaces where the thread was interrupted:
\* inside the try block of a running get_page_content it is caught there as
\* a failure of that URL; in the synchronous code of scrape_links and
\* process_batch it reaches the except clause of scrape_links; while the
\* loop waits (sleep, gather) or in the except clause it ends the process.
handle_shutdown ==
    /\ pc \in {"start", "read", "loop", "for", "sleep", "gather", "ckpt", "except"}
    /\ sigs < MaxSignals
    /\ sigs' = sigs + 1
    /\ now' = now + 1
    /\ LET r == save_checkpoint(stats, now) IN
         /\ file' = r.file
         /\ lastSave' = SaveRecord("signal", stats, r, tasks, pc)
         /\ IF r.ok
            THEN /\ pc' = "exited"
                 /\ stats' = r.stats
                 /\ tasks' = Cancelled(tasks)
                 /\ UNCHANGED <<order, recorded>>
            ELSE IF Running(tasks) # {}
            THEN LET k == CHOOSE m \in Running(tasks) : TRUE IN
                   /\ tasks' = [tasks EXCEPT ![k] = Failed(@, "Object of type set is not JSON serializable")]
                   /\ stats' = CountFailure(stats)
                   /\ order' = Append(order, k)
                   /\ recorded' = recorded \cup {tasks[k].url}
                   /\ pc' = pc
            ELSE /\ pc' = IF pc \in {"sleep", "gather", "except"} THEN "crashed" ELSE "except"
                 /\ tasks' = IF pc \in {"sleep", "gather", "except"} THEN Cancelled(tasks) ELSE tasks
                 /\ UNCHANGED <<stats, order, recorded>>
    /\ UNCHANGED <<envVars, found, sinceSleep, output, run, resume, i, j, results, hist>>

\* ------------------------------------------------------------- the next run
Ended == pc \in {"done", "crashed", "exited", "killed"}

\* main() is started again over the same files, with or without --no-resume
Restart ==
    /\ Ended
    /\ run < MaxRuns
    /\ run' = run + 1
    /\ now' = now + 1
    /\ hist' = Append(hist, [resume |-> resume, interrupted |-> sigs > 0, end |-> pc,
                             loaded |-> stats.processed_urls.kind = "list"])
    /\ resume' \in BOOLEAN
    /\ pc' = "construct"
    /\ stats' = initialize_stats
    /\ i' = 0 /\ j' = 0
    /\ tasks' = <<>> /\ results' = <<>> /\ order' = <<>>
    /\ sigs' = 0
    /\ found' = NotLoaded
    /\ sinceSleep' = 0
    /\ UNCHANGED <<envVars, file, output, lastSave, recorded>>

\* ----------------------------------------------------------- specifications
Next ==
    \/ Construct
    \/ LoadOrInit
    \/ ReadInput
    \/ LoopHead
    \/ ForStep
    \/ Wake
    \/ \E k \in 1..Len(tasks) : TaskStart(k)
    \/ \E k \in 1..Len(tasks) : TaskSend(k)
    \/ \E k \in 1..Len(tasks) : \E kind \in Transient \cup Terminal \cup {"ok"} : TaskResponse(k, kind)
    \/ \E k \in 1..Len(tasks) : TaskExtract(k)
    \/ \E k \in 1..Len(tasks) : TaskAddBytes(k)
    \/ GatherDone
    \/ PeriodicCheckpoint
    \/ ExceptHandler
    \/ KilledInSave
    \/ handle_shutdown

\* one process
Spec == Init /\ [][Next]_vars

NextRuns == Next \/ Restart

\* processes started one after the other over the same files, where the
\* configuration and the input can be read, the first process finds no
\* checkpoint or a complete one, and the input has at most two rows
InitRuns == Init /\ cfgPresent /\ inputOk /\ file.state # "partial" /\ Len(input) <= 2

SpecRuns == InitRuns /\ [][NextRuns]_vars

\* ================================================================ properties
Loaded == stats.processed_urls.kind = "list"

RECURSIVE SumOver(_, _)
\* the sum of the field f of the records of the sequence ts
SumOver(ts, f) == IF ts = <<>> THEN 0 ELSE Head(ts)[f] + SumOver(Tail(ts), f)

\* C1: every call of save_checkpoint (periodic, on error, on a termination
\* request) is handed statistics in which successful_downloads +
\* failed_downloads is the number of URLs in processed_urls.
C1_CountsMatchProcessed ==
    lastSave.who # "none" =>
        lastSave.successful_downloads + lastSave.failed_downloads
            = Cardinality(lastSave.processed)

\* C2: a run that resumed from a checkpoint never creates a fetch for a URL
\* the checkpoint lists as processed, hence never sends a request for one
\* and never yields a record for one.
C2_NoRefetchOnResume ==
    Loaded =>
        /\ \A k \in 1..Len(tasks) : tasks[k].url \notin prior
        /\ \A k \in 1..Len(results) : results[k].url \notin prior

\* a resumed run has passed over a URL of the checkpoint and come to a URL
\* that is not in it
C2_Witness ==
    /\ Loaded
    /\ pc = "except"
    /\ Len(tasks) = 1
    /\ \E m \in 1..(j - 1) : BatchUrls(i)[m] \in prior

\* C3: after a run was interrupted by a termination request, a resumed run
\* that ends without being interrupted or killed itself completes the crawl,
\* and every URL of the input has had its outcome counted by some process
\* (or was counted already in the checkpoint the first process found).
C3_InterruptibleWithoutLoss ==
    (/\ run >= 2
     /\ hist[Len(hist)].interrupted
     /\ resume
     /\ sigs = 0
     /\ pc \in {"done", "crashed", "exited"})
    => (pc = "done" /\ Range(input) \subseteq (recorded \cup prior))

\* C4: a URL is in processed_urls only once its outcome was counted.
C4_ProcessedOnlyAfterOutcome == Processed(stats) \subseteq (recorded \cup prior)

\* C5: the records of results are in input order: of two records, the URL
\* of the earlier one occurs first in the input before the URL of the later.
C5_ResultsInInputOrder ==
    \A p, q \in 1..Len(results) :
        p < q => FirstIndex(input, results[p].url) < FirstIndex(input, results[q].url)

\* two fetches of a batch returned in the reverse of their order in the
\* list and their records were appended to results
C5_Witness ==
    /\ pc = "ckpt"
    /\ Len(results) >= 2
    /\ \E a, b \in 1..Len(order) : a < b /\ order[a] > order[b]

RECURSIVE TransientBefore(_)
\* how many transient failures the server answers before its first other
\* answer, for a sequence of answer sets
TransientBefore(sc) ==
    IF sc = <<>> \/ ~(Head(sc) \subseteq Transient) THEN 0 ELSE 1 + TransientBefore(Tail(sc))

\* the retries the policy grants a URL
RetriesDue(u) == Min(config.max_retries, TransientBefore(Script(u)))

RECURSIVE RetriesDueAll(_)
RetriesDueAll(ts) == IF ts = <<>> THEN 0 ELSE RetriesDue(Head(ts).url) + RetriesDueAll(Tail(ts))

\* C6: a URL whose fetch fails transiently is re-fetched min(max_retries,
\* transient failures before the first success) times, and when the batch
\* has resolved retried_downloads has grown by one for each such retry.
C6_TransientRetried ==
    sigs = 0 =>
        /\ \A k \in 1..Len(tasks) :
              tasks[k].st = "done" => tasks[k].sent - 1 = RetriesDue(tasks[k].url)
        /\ pc = "ckpt" /\ ~Loaded => stats.retried_downloads = RetriesDueAll(tasks)

\* C7: a URL answered with a non-transient error (no content region, too
\* short, HTTP 4xx) is requested exactly once, its result carries the error
\* and no content, it counted one failure and no success, and the counters
\* of a fresh run are the sums of what its fetches counted.
C7_TerminalNotRetried ==
    /\ \A k \in 1..Len(tasks) :
          (tasks[k].st = "done" /\ tasks[k].kind \in Terminal) =>
              /\ tasks[k].sent = 1
              /\ \A m \in 1..Len(tasks) : tasks[m].url = tasks[k].url => m = k
              /\ ResultOf(tasks[k]).error # "None"
              /\ ResultOf(tasks[k]).content = 0
              /\ ResultOf(tasks[k]).size_bytes = 0
              /\ tasks[k].fail = 1
              /\ tasks[k].succ = 0
    /\ ~Loaded =>
          /\ stats.failed_downloads = SumOver(tasks, "fail")
          /\ stats.successful_downloads = SumOver(tasks, "succ")

\* a batch has resolved in which one URL was answered with a non-transient
\* error and failed, next to a URL that succeeded
C7_Witness ==
    /\ pc = "ckpt"
    /\ \E k \in 1..Len(tasks) : tasks[k].kind \in Terminal /\ tasks[k].st = "done"
    /\ \E k \in 1..Len(tasks) : tasks[k].succ = 1
    /\ stats.failed_downloads >= 1

\* the scenario of C8: input [A, B, C], max_retries 2, min_content_length
\* 50, B answered with HTTP 500 and C with a short page, no termination
\* request, every URL resolved
C8_Scenario ==
    /\ input = <<"A", "B", "C">>
    /\ config.max_retries = 2 /\ config.min_content_length = 50
    /\ ~Loaded
    /\ sigs = 0
    /\ pc = "ckpt"
    /\ Len(tasks) = 3
    /\ \A k \in 1..Len(tasks) : tasks[k].url = "B" => tasks[k].kind \in {"5xx", "ok"}
    /\ \A k \in 1..Len(tasks) : tasks[k].url = "C" => tasks[k].kind = "short"

\* C8: in that scenario A succeeded on its first request, B succeeded after
\* two retries, C failed with "Content too short" on its only request, and
\* the counters are 2 successes, 1 failure, 2 retries.
C8_ScenarioOutcome ==
    C8_Scenario =>
        /\ tasks[1].succ = 1 /\ tasks[1].sent = 1
        /\ tasks[2].succ = 1 /\ tasks[2].sent = 3
        /\ tasks[3].fail = 1 /\ tasks[3].sent = 1 /\ tasks[3].error = "Content too short"
        /\ stats.successful_downloads = 2
        /\ stats.failed_downloads = 1
        /\ stats.retried_downloads = 2

\* C9: the save made by the shutdown handler while a batch is being
\* gathered completes, and it is handed exactly the completed fetches: the
\* processed URLs are the URLs whose fetch returned and the two counters
\* sum to their number.
C9_ShutdownCheckpointExact ==
    (lastSave.who = "signal" /\ lastSave.at = "gather" /\ lastSave.run = run) =>
        /\ lastSave.ok
        /\ lastSave.processed = lastSave.completed
        /\ lastSave.successful_downloads + lastSave.failed_downloads
              = Cardinality(lastSave.completed)

\* C10: once a termination request was delivered, no request is sent that
\* had not been sent before, and no fetch that was in flight is cancelled.
C10_NoNewFetchNoneAbandoned ==
    sigs > 0 =>
        \A k \in 1..Len(tasks) :
            /\ ~tasks[k].afterSig
            /\ ~(tasks[k].st = "cancelled" /\ tasks[k].sent > 0)

\* C11: once a termination request was delivered, the process has saved the
\* forced checkpoint completely and has exited with the success code: it is
\* neither still running, nor ended in a traceback, nor left without the
\* checkpoint of that request on disk.
C11_ShutdownSavesThenExits ==
    sigs > 0 =>
        /\ pc = "exited"
        /\ lastSave.who = "signal" /\ lastSave.ok
        /\ file.state = "valid"

\* C12: when load_checkpoint met a checkpoint file that is not a complete
\* JSON document, it returned False (no checkpoint), the statistics in memory
\* are those of a fresh run, and the run went on to read its input instead
\* of entering the error handler with nothing processed.
C12_CorruptCheckpointMeansFreshRun ==
    found.state = "partial" =>
        /\ found.ret = "false"
        /\ stats.processed_urls.kind = "set"
        /\ stats.start_time # None

\* C13: over processes that start from no checkpoint file or a complete one,
\* whatever happens to a process during save_checkpoint (an exception inside
\* json.dump, or the process being killed), the checkpoint file is at every
\* instant absent or a complete JSON document.
C13_CheckpointFileNeverPartial ==
    file.state \in {"absent", "valid"}

\* C14: save_checkpoint is never handed the statistics while a fetch stands
\* between its two updates of them, after successful_downloads += 1 and
\* before total_size_bytes += size_bytes; this holds for the save of a
\* termination request too.
C14_NoCheckpointInsideItemUpdate ==
    lastSave.midUpdate = FALSE

\* fetches that asyncio.gather has started and that have not returned
InFlight(ts) == {k \in 1..Len(ts) : ts[k].st \in {"scheduled", "starting", "inflight", "extracting", "mid"}}

\* C15: at every instant at most batch_size fetches are in flight and all of
\* them are fetches of the batch that starts at row i; while scrape_links
\* stands between two batches (after process_batch returned, at the periodic
\* checkpoint, at the head of the loop) or process_batch is still collecting
\* the coroutines of a batch, no fetch is in flight: every fetch of the
\* batch before has returned.
C15_BatchesInSequenceBounded ==
    /\ Len(tasks) <= config.batch_size
    /\ Cardinality(InFlight(tasks)) <= config.batch_size
    /\ \A k \in InFlight(tasks) : tasks[k].url \in Range(BatchUrls(i))
    /\ pc \in {"ckpt", "loop", "for", "sleep"} => InFlight(tasks) = {}
    /\ pc \in {"ckpt", "loop"} => \A k \in 1..Len(tasks) : tasks[k].st = "done"

\* a full batch of two fetches in flight at once, with input rows left for a
\* later batch
C15_Witness ==
    /\ pc = "gather"
    /\ config.batch_size = 2
    /\ Len(input) > config.batch_size
    /\ Cardinality(InFlight(tasks)) = config.batch_size
    /\ \E k \in 1..Len(tasks) : tasks[k].st = "inflight"

\* C16: no two requests are sent without a rate-limit sleep having elapsed
\* between them: at most one request was sent since the last asyncio.sleep
\* of process_batch returned.
C16_DelayBetweenFetchIssues ==
    sinceSleep <= 1

\* C17: a fetch that fails returns a record carrying the error and is counted
\* in failed_downloads; and a run in which a fetch failed, and which no
\* termination request or kill disturbed, is not ended by an exception: it
\* ends completed, with a record for every URL of the input.
C17_ItemErrorNeverAbortsRun ==
    /\ \A k \in 1..Len(tasks) :
          tasks[k].fail > 0 =>
             /\ tasks[k].st = "done"
             /\ ResultOf(tasks[k]).error # "None"
             /\ stats.failed_downloads >= 1
    /\ (/\ sigs = 0
        /\ \E n \in 1..Len(results) : results[n].error # "None"
        /\ pc \in {"except", "crashed", "done"})
       => (/\ pc = "done"
           /\ \A u \in Range(input) : \E n \in 1..Len(output) : output[n].url = u)

\* a save_checkpoint call follows another one of this process with no fetch
\* completed in between: the statistics are those the last call was handed,
\* and the process is alive to save again
SavedAndUnchangedSince ==
    /\ lastSave.who # "none"
    /\ lastSave.run = run
    /\ lastSave.successful_downloads = stats.successful_downloads
    /\ lastSave.failed_downloads = stats.failed_downloads
    /\ pc \in {"start", "read", "loop", "for", "sleep", "gather", "ckpt", "except"}

\* C18: two saves in a row write the same snapshot, and a save changes no
\* statistics field that it persists: after one save, with no fetch
\* completed since, a second save would leave a file holding the same
\* statistics as the file on disk, and the statistics in memory as they are.
C18_SaveIdempotent ==
    SavedAndUnchangedSince =>
        LET r == save_checkpoint(stats, now) IN
          /\ r.file.state = file.state
          /\ r.file.stats = file.stats
          /\ r.stats = stats

\* C18, amended: the same, except for last_checkpoint: a save that returns
\* sets it to the time of the save, so that the second snapshot differs from
\* the first in last_checkpoint and in nothing else, and a save changes no
\* other statistics field; a save that raises changes nothing in memory and
\* leaves the same truncated file as the one before.
C18_SaveIdempotentButLastCheckpoint ==
    SavedAndUnchangedSince =>
        LET r == save_checkpoint(stats, now) IN
          /\ r.ok = lastSave.ok
          /\ r.file.state = file.state
          /\ [r.file.stats EXCEPT !.last_checkpoint = file.stats.last_checkpoint] = file.stats
          /\ [r.stats EXCEPT !.last_checkpoint = stats.last_checkpoint] = stats
          /\ ~r.ok => r.stats = stats /\ r.file = file

\* the file on disk was written by a save that followed another save: it
\* holds the last_checkpoint the first of the two had set
C18_Witness ==
    /\ lastSave.ok
    /\ lastSave.run = run
    /\ file.state = "valid"
    /\ file.stats.last_checkpoint # None
    /\ file.stats.last_checkpoint < file.timestamp

\* items with a counted outcome, and those of them the last checkpoint that
\* this process wrote completely accounts for
CompletedItems == stats.successful_downloads + stats.failed_downloads
CheckpointedItems ==
    IF lastSave.ok /\ lastSave.run = run
    THEN lastSave.successful_downloads + lastSave.failed_downloads
    ELSE 0

\* C19: in a fresh run that no termination request disturbs, the items
\* completed since the last written checkpoint never exceed
\* checkpoint_frequency plus one batch; and once scrape_links is past the
\* periodic checkpoint of a batch, no multiple of checkpoint_frequency lies
\* between the items the last written checkpoint accounts for and the items
\* completed: a checkpoint was written when the count crossed it.
C19_CheckpointEveryFrequencyItems ==
    (~Loaded /\ sigs = 0) =>
        /\ CompletedItems - CheckpointedItems
              <= config.checkpoint_frequency + config.batch_size
        /\ pc \in {"loop", "for", "sleep", "done", "except", "crashed"} =>
              CompletedItems \div config.checkpoint_frequency
                 = CheckpointedItems \div config.checkpoint_frequency

\* C20: with no configuration file, the options in force are the built-in
\* defaults and the constructor returns: the process is never ended by an
\* exception before scrape_links has run (an exception inside scrape_links
\* always passes through a save_checkpoint call).
C20_DefaultsWhenConfigAbsent ==
    ~cfgPresent =>
        /\ config = DefaultConfig
        /\ pc = "crashed" => lastSave.who # "none"

\* C21: a run that no termination request disturbed and that the except
\* clause of scrape_links has ended (an exception raised while loading the
\* checkpoint, reading the input or inside the batch loop) has written a
\* complete checkpoint of the statistics it had reached before the exception
\* went on to the caller.
C21_FatalErrorCheckpointsProgress ==
    (pc = "crashed" /\ lastSave.who = "error" /\ sigs = 0) =>
        /\ lastSave.ok
        /\ file.state = "valid"
        /\ file.stats.successful_downloads = stats.successful_downloads
        /\ file.stats.failed_downloads = stats.failed_downloads
        /\ Processed(file.stats) = Processed(stats)

\* C22: when load_checkpoint returned True on the file a completed save left,
\* the statistics in memory are those of the file (the counters, the start
\* time, the members of processed_urls), and process_batch can add a URL to
\* processed_urls.
C22_LoadAfterSaveRoundTrip ==
    (found.ret = "true" /\ file.state = "valid") =>
        /\ stats.successful_downloads = file.stats.successful_downloads
        /\ stats.failed_downloads = file.stats.failed_downloads
        /\ stats.retried_downloads = file.stats.retried_downloads
        /\ stats.total_size_bytes = file.stats.total_size_bytes
        /\ stats.start_time = file.stats.start_time
        /\ Processed(stats) = Processed(file.stats)
        /\ CanAdd(stats)

\* C23: a fetch that has returned has incremented exactly one of
\* successful_downloads and failed_downloads, once; and at the end of a
\* batch of a fresh run, when no fetch is in flight, the two counters add up
\* to the number of fetches the run has gathered so far.
C23_EachFetchCountedOnce ==
    /\ \A k \in 1..Len(tasks) :
          tasks[k].st = "done" => tasks[k].succ + tasks[k].fail = 1
    /\ (~Loaded /\ pc \in {"ckpt", "loop", "done"}) =>
          stats.successful_downloads + stats.failed_downloads = Len(results)

\* the two shapes of a returned record: a success with its text and size, a
\* failure with the error and nothing else
IsSuccess(r) == r.error = "None" /\ r.content >= config.min_content_length /\ r.size_bytes > 0
IsFailure(r) == r.error # "None" /\ r.content = 0 /\ r.size_bytes = 0

\* size_bytes summed over the success records of a sequence of records
RECURSIVE SuccessBytes(_)
SuccessBytes(rs) ==
    IF rs = <<>> THEN 0
    ELSE (IF Head(rs).error = "None" THEN Head(rs).size_bytes ELSE 0) + SuccessBytes(Tail(rs))

\* C24: every record a fetch has returned is a success or a failure; and at
\* the end of a batch of a fresh run, when no fetch is in flight,
\* total_size_bytes is the sum of size_bytes over the success records
\* gathered so far.
C24_RecordShapeAndBytes ==
    /\ \A k \in 1..Len(tasks) :
          tasks[k].st = "done" => IsSuccess(ResultOf(tasks[k])) \/ IsFailure(ResultOf(tasks[k]))
    /\ \A n \in 1..Len(results) : IsSuccess(results[n]) \/ IsFailure(results[n])
    /\ (~Loaded /\ pc \in {"ckpt", "loop", "done"}) =>
          stats.total_size_bytes = SuccessBytes(results)

\* the URLs counted as processed when the run started: those of the
\* checkpoint it loaded, none in a fresh run
AtStart == IF Loaded THEN prior ELSE {}

\* the rows of the input whose batch process_batch has returned for
RowsDone == SubSeq(input, 1, Min(IF pc = "ckpt" THEN i + config.batch_size ELSE i, Len(input)))

\* C25: within a run no URL is fetched twice and no URL gets two records,
\* whether it is repeated inside a batch or in a later batch; so at the end
\* of each batch the records gathered so far are as many as the distinct
\* URLs of the rows handled that were not processed at the start of the run,
\* and so are the records of the output when the run completes.
C25_DuplicatesFetchedOnce ==
    /\ \A k, m \in 1..Len(tasks) : k # m => tasks[k].url # tasks[m].url
    /\ \A k \in 1..Len(tasks) : tasks[k].sent <= 1
    /\ \A n, m \in 1..Len(results) : n # m => results[n].url # results[m].url
    /\ pc \in {"for", "sleep", "gather"} =>
          \A k \in 1..Len(tasks) : \A n \in 1..Len(results) : tasks[k].url # results[n].url
    /\ pc \in {"ckpt", "loop"} => Len(results) = Cardinality(Range(RowsDone) \ AtStart)
    /\ pc = "done" => Len(output) = Cardinality(Range(input) \ AtStart)

\* a batch in which a URL occurs twice has been fetched: one request, one
\* record
C25_Witness ==
    /\ pc = "ckpt"
    /\ \E a, b \in 1..Len(BatchUrls(i)) : a < b /\ BatchUrls(i)[a] = BatchUrls(i)[b]
    /\ Len(results) = 1
    /\ Len(tasks) = 1 /\ tasks[1].sent = 1

\* C26: a run started with --no-resume does not load the checkpoint: it
\* calls load_checkpoint not at all, its statistics are the empty ones of
\* initialize_stats with the start time taken when scrape_links begins; and
\* when it has ended, undisturbed by a termination request, with a readable
\* configuration and input, every URL of the input has been fetched, those
\* listed in the existing checkpoint included.
C26_NoResumeIgnoresCheckpoint ==
    ~resume =>
        /\ found = NotLoaded
        /\ ~Loaded
        /\ pc \in {"construct", "start"} => stats = initialize_stats
        /\ pc \in {"read", "loop", "for", "sleep", "gather", "ckpt", "done"} =>
              stats.start_time # None /\ stats.start_time > file.timestamp
        /\ (pc \in {"done", "crashed"} /\ sigs = 0 /\ cfgPresent /\ inputOk) =>
              \A u \in Range(input) : \E n \in 1..Len(results) : results[n].url = u

====
